---- MODULE Spec2Model ----
(***************************************************************************)
(* Model of the buddy / mmap allocator of forme.cpp.                       *)
(*                                                                         *)
(* Memory is a map from addresses to block headers (MallocMetadata).  An   *)
(* address that holds no header reads as zero bytes (fresh pages of the    *)
(* program break and of anonymous mappings are zero filled).  Every list   *)
(* operation is translated statement by statement, so that aliasing of the *)
(* nodes it touches behaves as in the code.  size_t counters are kept as   *)
(* the signed representative of their value modulo 2^64: a counter that    *)
(* the code decrements below zero shows here as a negative number.         *)
(***************************************************************************)
EXTENDS Integers, Sequences, FiniteSets, TLC

(***************************************************************************)
(* Program constants                                                       *)
(***************************************************************************)
MAX_ORDER == 10
BLOCK_SIZE == 131072
NUM_INIT_BLOCKS == 32
GlobalCookie == 305419896
\* sizeof(MallocMetadata) on LP64: int, size_t, bool, bool, int, two pointers
SIZEOF_META == 40
\* GetBlockOrder starts at 128 bytes for order 0
MIN_BLOCK == 128
\* the ceiling of smalloc
MAX_REQUEST == 100000000

NULL == 0
\* (void*)-1, the failure value of sbrk
SBRK_FAILED == -1
\* index of mmapList next to buddyArray[0..MAX_ORDER]
MMAP_LIST == MAX_ORDER + 1

ARENA_SIZE == NUM_INIT_BLOCKS * BLOCK_SIZE

\* a local variable: e is computed once and F reads it as often as it likes
Let(e, F(_)) == F(e)

(***************************************************************************)
(* Bounds of the model                                                     *)
(***************************************************************************)
\* number of public calls in a run
MaxOps == 5
\* number of address ranges the kernel may hand out for mappings
MaxMaps == 2

\* the program break when the process first calls the allocator
InitBrk == 4198400
\* where the kernel places anonymous mappings, and the distance between them
MmapBase == 268435456
MmapStride == 134217728

MmapSlots == { MmapBase + i * MmapStride : i \in 0..(MaxMaps - 1) }

(***************************************************************************)
(* Block headers and memory                                                *)
(***************************************************************************)
ZeroHdr ==
  [cookie |-> 0, size |-> 0, is_free |-> FALSE, is_mmap |-> FALSE,
   order |-> 0, next |-> NULL, prev |-> NULL]

\* the header stored at address a (zero bytes where none was written)
M(m, a) == IF a \in DOMAIN m THEN m[a] ELSE ZeroHdr

\* *a = h
WH(m, a, h) == (a :> h) @@ m

\* a->f = v
W(m, a, f, v) == WH(m, a, [M(m, a) EXCEPT ![f] = v])

EmptyList ==
  [head |-> NULL, num_free_blocks |-> 0, num_free_bytes |-> 0,
   num_allocated_blocks |-> 0, num_allocated_bytes |-> 0,
   num_meta_data_bytes |-> 0]

\* The process stops at the first call that does not return: "hang" is a
\* loop that never ends, "fault" an access to memory the process does not own
\* or an index outside buddyArray.
Stop(s, why) == [s EXCEPT !.status = why]

\* an address the process may read and write
Mapped(s, a) ==
  \/ /\ s.BASE # NULL /\ s.BASE # SBRK_FAILED
     /\ a >= InitBrk /\ a + SIZEOF_META <= s.BASE + ARENA_SIZE
  \/ \E b \in DOMAIN s.maps : a >= b /\ a + SIZEOF_META <= b + s.maps[b]

(***************************************************************************)
(* BlocksList                                                              *)
(***************************************************************************)
RECURSIVE AddBlockWalk(_, _, _, _)
\* while(curr->next && (curr->next < b)) curr = curr->next;
\* the node the loop stops at, or -1 when it never stops
AddBlockWalk(m, curr, b, seen) ==
  IF curr \in seen THEN -1
  ELSE IF M(m, curr).next # NULL /\ M(m, curr).next < b
       THEN AddBlockWalk(m, M(m, curr).next, b, seen \cup {curr})
       ELSE curr

AddBlock(s, L, b) ==
  IF s.status # "ok" \/ b = NULL THEN s
  ELSE
    LET hb == M(s.mem, b)
        l0 == s.lists[L]
        l1 == [l0 EXCEPT
                 !.num_allocated_blocks = @ + 1,
                 !.num_allocated_bytes = @ + hb.size,
                 !.num_meta_data_bytes = @ + SIZEOF_META,
                 !.num_free_blocks = IF hb.is_free THEN @ + 1 ELSE @,
                 !.num_free_bytes = IF hb.is_free THEN @ + hb.size ELSE @]
    IN
    IF l1.head = NULL THEN
      [s EXCEPT !.lists[L] = [l1 EXCEPT !.head = b],
                !.mem = W(W(s.mem, b, "next", NULL), b, "prev", NULL)]
    ELSE IF b < l1.head THEN
      LET m1 == W(s.mem, b, "next", l1.head)
          m2 == W(m1, b, "prev", NULL)
          m3 == W(m2, l1.head, "prev", b)
      IN [s EXCEPT !.lists[L] = [l1 EXCEPT !.head = b], !.mem = m3]
    ELSE
      Let(AddBlockWalk(s.mem, l1.head, b, {}), LAMBDA curr :
        IF curr = -1 THEN Stop([s EXCEPT !.lists[L] = l1], "hang")
        ELSE
          Let(W(W(s.mem, b, "next", M(s.mem, curr).next), b, "prev", curr),
              LAMBDA m2 :
                Let(IF M(m2, curr).next # NULL
                    THEN W(m2, M(m2, curr).next, "prev", b)
                    ELSE m2,
                    LAMBDA m3 :
                      [s EXCEPT !.lists[L] = l1,
                                !.mem = W(m3, curr, "next", b)])))

RemoveBlock(s, L, b) ==
  IF s.status # "ok" \/ b = NULL THEN s
  ELSE
    LET hb == M(s.mem, b)
        l0 == s.lists[L]
        l1 == [l0 EXCEPT
                 !.num_allocated_blocks = @ - 1,
                 !.num_allocated_bytes = @ - hb.size,
                 !.num_meta_data_bytes = @ - SIZEOF_META,
                 !.num_free_blocks = IF hb.is_free THEN @ - 1 ELSE @,
                 !.num_free_bytes = IF hb.is_free THEN @ - hb.size ELSE @]
        l2 == IF hb.prev = NULL /\ l1.head = b
              THEN [l1 EXCEPT !.head = hb.next]
              ELSE l1
    IN
    Let(IF hb.prev # NULL THEN W(s.mem, hb.prev, "next", hb.next) ELSE s.mem,
        LAMBDA m1 :
          Let(IF M(m1, b).next # NULL
              THEN W(m1, M(m1, b).next, "prev", M(m1, b).prev)
              ELSE m1,
              LAMBDA m2 :
                [s EXCEPT !.lists[L] = l2,
                          !.mem = W(W(m2, b, "next", NULL), b, "prev", NULL)]))

RECURSIVE FindWalk(_, _, _, _)
FindWalk(m, curr, needed, seen) ==
  IF curr = NULL THEN NULL
  ELSE IF M(m, curr).is_free /\ M(m, curr).size >= needed THEN curr
  ELSE IF curr \in seen THEN -1
  ELSE FindWalk(m, M(m, curr).next, needed, seen \cup {curr})

\* the first free block of list L of at least `needed` bytes, NULL when the
\* scan reaches the end of the list, -1 when the scan never ends
FindFirstFreeBlock(s, L, needed) == FindWalk(s.mem, s.lists[L].head, needed, {})

(***************************************************************************)
(* Arena initializer                                                       *)
(***************************************************************************)
RECURSIVE InitBlocks(_, _)
\* the for loop of initialize_buddy_allocator, from iteration i on
InitBlocks(s, i) ==
  IF s.status # "ok" \/ i >= NUM_INIT_BLOCKS THEN s
  ELSE
    LET block == s.BASE + i * BLOCK_SIZE
        s1 == [s EXCEPT !.mem = WH(s.mem, block,
                 [cookie |-> GlobalCookie, size |-> BLOCK_SIZE,
                  is_free |-> TRUE, is_mmap |-> FALSE, order |-> MAX_ORDER,
                  next |-> NULL, prev |-> NULL])]
    IN InitBlocks(AddBlock(s1, MAX_ORDER, block), i + 1)

\* sbrkFail: which of the calls of sbrk fails (1 the padding call, 2 the
\* arena call, 0 none)
initialize_buddy_allocator(s, sbrkFail) ==
  IF s.is_buddy_initialized THEN [s |-> s, ret |-> TRUE]
  ELSE
    LET s0 == [s EXCEPT !.is_buddy_initialized = TRUE]
        alignment == s0.brk % ARENA_SIZE
        toAdd == ARENA_SIZE - alignment
    IN
    IF alignment # 0 /\ sbrkFail = 1 THEN [s |-> s0, ret |-> FALSE]
    ELSE
      LET s1 == IF alignment # 0 THEN [s0 EXCEPT !.brk = @ + toAdd] ELSE s0 IN
      IF sbrkFail = 2 THEN [s |-> [s1 EXCEPT !.BASE = SBRK_FAILED], ret |-> FALSE]
      ELSE
        LET s2 == [s1 EXCEPT !.BASE = s1.brk, !.brk = @ + ARENA_SIZE]
        IN [s |-> InitBlocks(s2, 0), ret |-> TRUE]

(***************************************************************************)
(* Orders                                                                  *)
(***************************************************************************)
RECURSIVE GetBlockOrderLoop(_, _, _)
GetBlockOrderLoop(size, order, current) ==
  IF order > MAX_ORDER THEN -1
  ELSE IF current >= size THEN order
  ELSE GetBlockOrderLoop(size, order + 1, current * 2)

GetBlockOrder(size) == GetBlockOrderLoop(size, 0, MIN_BLOCK)

(***************************************************************************)
(* Large blocks                                                            *)
(***************************************************************************)
\* allocate_with_mmap with the registry's ledger moved before the mapping is
\* known to exist
allocate_with_mmap_CountFirst(s, userSize, slot) ==
  LET s0 == [s EXCEPT !.lists[MMAP_LIST] = [@ EXCEPT
               !.num_allocated_blocks = @ + 1,
               !.num_allocated_bytes = @ + userSize,
               !.num_meta_data_bytes = @ + SIZEOF_META]]
  IN
  IF slot = NULL THEN [s |-> s0, ret |-> NULL]
  ELSE
    [s |-> [s0 EXCEPT
              !.lists[MMAP_LIST].head = slot,
              !.maps = (slot :> (userSize + SIZEOF_META)) @@ s.maps,
              !.mem = WH(s.mem, slot,
                [cookie |-> GlobalCookie, size |-> userSize,
                 is_free |-> FALSE, is_mmap |-> TRUE, order |-> -1,
                 next |-> s.lists[MMAP_LIST].head, prev |-> NULL])],
     ret |-> slot]

\* slot: the address mmap returns, NULL for MAP_FAILED
allocate_with_mmap(s, userSize, slot) ==
  IF slot = NULL THEN [s |-> s, ret |-> NULL]
  ELSE
    LET totalSize == userSize + SIZEOF_META
        s1 == [s EXCEPT
                 !.maps = [b \in (DOMAIN s.maps) \cup {slot} |->
                             IF b = slot THEN totalSize ELSE s.maps[b]],
                 !.mem = WH(s.mem, slot,
                   [cookie |-> GlobalCookie, size |-> userSize,
                    is_free |-> FALSE, is_mmap |-> TRUE, order |-> -1,
                    next |-> NULL, prev |-> NULL])]
    IN [s |-> AddBlock(s1, MMAP_LIST, slot), ret |-> slot]

\* munmap(block, len): the range leaves the address space with what it held
Munmap(s, block, len) ==
  [s EXCEPT
     !.maps = [b \in (DOMAIN s.maps) \ {block} |-> s.maps[b]],
     !.mem = [a \in { x \in DOMAIN s.mem : x < block \/ x >= block + len } |->
                s.mem[a]]]

free_mmap_block(s, block) ==
  IF s.status # "ok" \/ block = NULL THEN s
  ELSE
    Let(RemoveBlock(s, MMAP_LIST, block), LAMBDA s1 :
      Munmap(s1, block, M(s1.mem, block).size + SIZEOF_META))

(***************************************************************************)
(* Splitting                                                               *)
(***************************************************************************)
\* buddyArray[L]'s counters, each moved by the given amount
Adjust(s, L, fblocks, fbytes, meta, ablocks, abytes) ==
  IF s.status # "ok" THEN s
  ELSE [s EXCEPT !.lists[L] = [@ EXCEPT
          !.num_free_blocks = @ + fblocks,
          !.num_free_bytes = @ + fbytes,
          !.num_meta_data_bytes = @ + meta,
          !.num_allocated_blocks = @ + ablocks,
          !.num_allocated_bytes = @ + abytes]]

RECURSIVE CutSearch(_, _, _)
\* the search loop of CutInHalf from order i on: the block found and its
\* order; found is NULL when no order has one, -1 when a scan never ends
CutSearch(s, i, sizeNeeded) ==
  IF i > MAX_ORDER THEN [found |-> NULL, foundOrder |-> -1]
  ELSE
    Let(FindFirstFreeBlock(s, i, sizeNeeded), LAMBDA found :
      IF found # NULL THEN [found |-> found, foundOrder |-> i]
      ELSE CutSearch(s, i + 1, sizeNeeded))

RECURSIVE CutSplit(_, _, _, _)
\* the split loop of CutInHalf from order j down to desiredOrder
CutSplit(s, found, j, desiredOrder) ==
  IF s.status # "ok" \/ j <= desiredOrder THEN s
  ELSE
    Let(RemoveBlock(s, j, found), LAMBDA s1 :
      LET fsize == M(s1.mem, found).size
          half == fsize \div 2
          secondhalf == found + half
      IN
      Let(Adjust(s1, j, -1, -fsize, -SIZEOF_META, -1, -fsize), LAMBDA s2 :
        IF ~Mapped(s2, secondhalf) THEN Stop(s2, "fault")
        ELSE
          Let(W(W(s2.mem, found, "size", half), found, "is_free", TRUE),
              LAMBDA m1 :
                Let([s2 EXCEPT !.mem = WH(m1, secondhalf,
                       [M(m1, secondhalf) EXCEPT
                          !.cookie = GlobalCookie, !.size = half,
                          !.is_free = TRUE, !.next = NULL, !.prev = NULL])],
                    LAMBDA s3 :
                      CutSplit(
                        Adjust(AddBlock(AddBlock(s3, j - 1, found),
                                        j - 1, secondhalf),
                               j - 1, 2, 2 * half - SIZEOF_META,
                               2 * SIZEOF_META, 2, 2 * half - SIZEOF_META),
                        found, j - 1, desiredOrder)))))

CutInHalf(s, sizeNeeded) ==
  LET desiredOrder == GetBlockOrder(sizeNeeded) IN
  IF desiredOrder < 0 THEN [s |-> s, ret |-> NULL]
  ELSE
    Let(CutSearch(s, desiredOrder, sizeNeeded), LAMBDA f :
      IF f.found = -1 THEN [s |-> Stop(s, "hang"), ret |-> NULL]
      ELSE IF f.found = NULL THEN [s |-> s, ret |-> NULL]
      ELSE [s |-> CutSplit(s, f.found, f.foundOrder, desiredOrder),
            ret |-> f.found])

(***************************************************************************)
(* Merging                                                                 *)
(***************************************************************************)
\* blockSize = 0 makes the modulus a division by zero; MergeStep and
\* CheckLoop stop the process before they ask
FindBuddy(s, block, blockSize) ==
  IF block = NULL THEN NULL
  ELSE
    LET diff == block - s.BASE
        res == diff % (2 * blockSize)
    IN
    IF block = s.BASE THEN block + blockSize
    ELSE IF block = s.BASE + 32 * BLOCK_SIZE - blockSize THEN block - blockSize
    ELSE IF res = 0 THEN block + blockSize
    ELSE block - blockSize

RECURSIVE MergeLoop(_, _, _, _)
\* the for loop of MergeBuddies from iteration j on
MergeLoop(s, blockToFree, j, mergeTillOrder) ==
  IF s.status # "ok" \/ j >= mergeTillOrder THEN s
  ELSE
    LET bsize == M(s.mem, blockToFree).size IN
    IF bsize = 0 \/ blockToFree < s.BASE THEN Stop(s, "fault")
    ELSE
      LET buddy == FindBuddy(s, blockToFree, bsize) IN
      IF buddy = NULL THEN s
      ELSE IF ~Mapped(s, buddy) THEN Stop(s, "fault")
      ELSE IF ~M(s.mem, buddy).is_free THEN s
      ELSE IF j < 0 THEN Stop(s, "fault")
      ELSE
        Let(RemoveBlock(RemoveBlock(s, j, blockToFree), j, buddy), LAMBDA s2 :
          LET sz == M(s2.mem, blockToFree).size
              keep == IF buddy < blockToFree THEN buddy ELSE blockToFree
          IN
          Let(AddBlock(Adjust(s2, j, -2, -(sz * 2), -(2 * SIZEOF_META),
                              -2, -(sz * 2)),
                       j + 1, keep),
              LAMBDA s4 :
                Let(IF s4.status # "ok" THEN s4
                    ELSE [s4 EXCEPT !.mem = W(s4.mem, keep, "size",
                                              M(s4.mem, keep).size * 2)],
                    LAMBDA s5 :
                      LET ksz == M(s5.mem, keep).size IN
                      MergeLoop(Adjust(s5, j + 1, 1, ksz + SIZEOF_META,
                                       SIZEOF_META, 1, ksz + SIZEOF_META),
                                keep, j + 1, mergeTillOrder))))

MergeBuddies(s, blockToFree, mergeTillOrder) ==
  IF s.status # "ok" \/ blockToFree = NULL THEN s
  ELSE IF M(s.mem, blockToFree).cookie # GlobalCookie THEN s
  ELSE
    LET currentOrder == GetBlockOrder(M(s.mem, blockToFree).size)
        till == IF mergeTillOrder = -1 THEN MAX_ORDER ELSE mergeTillOrder
    IN MergeLoop(s, blockToFree, currentOrder, till)

RECURSIVE CheckLoop(_, _, _, _, _, _)
\* the for loop of CheckIfMergePossible from iteration j on; -2 when the
\* loop reads an address the process does not own
CheckLoop(s, oldBlock, newSize, curr, currentSize, j) ==
  IF j >= MAX_ORDER THEN -1
  ELSE IF currentSize >= newSize THEN j
  ELSE IF currentSize = 0 \/ curr < s.BASE THEN -2
  ELSE
    LET buddy == FindBuddy(s, curr, currentSize) IN
    IF buddy # NULL /\ ~Mapped(s, buddy) THEN -2
    ELSE IF buddy # NULL /\ M(s.mem, buddy).is_free
    THEN CheckLoop(s, oldBlock, newSize,
                   IF buddy < oldBlock THEN buddy ELSE oldBlock,
                   currentSize * 2, j + 1)
    ELSE -1

CheckIfMergePossible(s, oldBlock, newSize) ==
  IF oldBlock = NULL THEN -1
  ELSE IF M(s.mem, oldBlock).cookie # GlobalCookie THEN -1
  ELSE
    LET startOrder == GetBlockOrder(M(s.mem, oldBlock).size) IN
    IF startOrder < 0 THEN -1
    ELSE CheckLoop(s, oldBlock, newSize, oldBlock,
                   M(s.mem, oldBlock).size, startOrder)

(***************************************************************************)
(* Public entry points.  Each returns the state it leaves and the value it *)
(* returns.  env is what the operating system answers during the call:     *)
(* env.sbrkFail as in initialize_buddy_allocator, env.slot as in           *)
(* allocate_with_mmap.                                                     *)
(***************************************************************************)
smalloc(s, size, env) ==
  Let(IF s.is_buddy_initialized THEN [s |-> s, ret |-> TRUE]
      ELSE initialize_buddy_allocator(s, env.sbrkFail),
      LAMBDA i0 :
  IF ~i0.ret THEN [s |-> i0.s, ret |-> NULL]
  ELSE IF size = 0 \/ size > MAX_REQUEST THEN [s |-> i0.s, ret |-> NULL]
  ELSE IF size + SIZEOF_META > BLOCK_SIZE THEN
    Let(allocate_with_mmap(i0.s, size, env.slot), LAMBDA r :
      IF r.ret = NULL THEN [s |-> r.s, ret |-> NULL]
      ELSE [s |-> r.s, ret |-> r.ret + SIZEOF_META])
  ELSE
    Let(CutInHalf(i0.s, size + SIZEOF_META), LAMBDA r :
      LET freeBlock == r.ret IN
      IF r.s.status # "ok" \/ freeBlock = NULL THEN [s |-> r.s, ret |-> NULL]
      ELSE
        Let([r.s EXCEPT !.mem = W(r.s.mem, freeBlock, "is_free", FALSE)],
            LAMBDA s1 :
              LET fsize == M(s1.mem, freeBlock).size
                  i == GetBlockOrder(fsize)
              IN
              IF i < 0 THEN [s |-> Stop(s1, "fault"), ret |-> NULL]
              ELSE [s |-> Adjust(s1, i, -1, -fsize, 0, 0, 0),
                    ret |-> freeBlock + SIZEOF_META])))

\* v with its k low bytes cleared (every value of the model is below 2^31,
\* so bytes 4..7 of an 8 byte field are zero already)
ClearLow(v, k) ==
  IF k <= 0 THEN v
  ELSE IF k >= 4 THEN 0
  ELSE LET p == IF k = 1 THEN 256 ELSE IF k = 2 THEN 65536 ELSE 16777216
       IN (v \div p) * p

\* header h after its first n bytes were set to zero; the fields lie at
\* offsets 0 (cookie), 8 (size), 16 (is_free), 17 (is_mmap), 20 (order),
\* 24 (next), 32 (prev)
ZeroPrefix(h, n) ==
  [cookie |-> ClearLow(h.cookie, n),
   size |-> ClearLow(h.size, n - 8),
   is_free |-> IF n > 16 THEN FALSE ELSE h.is_free,
   is_mmap |-> IF n > 17 THEN FALSE ELSE h.is_mmap,
   order |-> ClearLow(h.order, n - 20),
   next |-> ClearLow(h.next, n - 24),
   prev |-> ClearLow(h.prev, n - 32)]

\* memset(p, 0, n) as far as it reaches headers
Memset0(m, p, n) ==
  [a \in DOMAIN m |->
     IF a >= p /\ a < p + n
     THEN ZeroPrefix(m[a], IF p + n - a > SIZEOF_META THEN SIZEOF_META
                           ELSE p + n - a)
     ELSE m[a]]

scalloc(s, num, size, env) ==
  IF num = 0 \/ size = 0 THEN [s |-> s, ret |-> NULL]
  ELSE
    LET totalSize == num * size IN
    Let(smalloc(s, totalSize, env), LAMBDA r :
      IF r.s.status # "ok" \/ r.ret = NULL THEN [s |-> r.s, ret |-> NULL]
      ELSE [s |-> [r.s EXCEPT !.mem = Memset0(r.s.mem, r.ret, totalSize)],
            ret |-> r.ret])

\* sfree without the canary test
sfree_NoCanary(s, p) ==
  IF s.status # "ok" \/ p = NULL THEN s
  ELSE
    LET meta == p - SIZEOF_META IN
    IF ~Mapped(s, meta) THEN Stop(s, "fault")
    ELSE IF M(s.mem, meta).is_free THEN s
    ELSE IF M(s.mem, meta).is_mmap THEN
      free_mmap_block([s EXCEPT !.mem = W(s.mem, meta, "is_free", TRUE)], meta)
    ELSE
      Let([s EXCEPT !.mem = W(s.mem, meta, "is_free", TRUE)], LAMBDA s1 :
        LET msize == M(s1.mem, meta).size
            i == GetBlockOrder(msize)
        IN
        IF i < 0 THEN Stop(s1, "fault")
        ELSE MergeBuddies(Adjust(AddBlock(s1, i, meta),
                                 i, 1, msize - SIZEOF_META, 0, 0, 0),
                          meta, -1))

sfree(s, p) ==
  IF s.status # "ok" \/ p = NULL THEN s
  ELSE
    LET meta == p - SIZEOF_META IN
    IF ~Mapped(s, meta) THEN Stop(s, "fault")
    ELSE IF M(s.mem, meta).cookie # GlobalCookie THEN s
    ELSE IF M(s.mem, meta).is_free THEN s
    ELSE IF M(s.mem, meta).is_mmap THEN
      free_mmap_block([s EXCEPT !.mem = W(s.mem, meta, "is_free", TRUE)], meta)
    ELSE
      Let([s EXCEPT !.mem = W(s.mem, meta, "is_free", TRUE)], LAMBDA s1 :
        LET msize == M(s1.mem, meta).size
            i == GetBlockOrder(msize)
        IN
        IF i < 0 THEN Stop(s1, "fault")
        ELSE MergeBuddies(Adjust(AddBlock(s1, i, meta),
                                 i, 1, msize - SIZEOF_META, 0, 0, 0),
                          meta, -1))

\* memmove(newp, oldp, n) as far as it carries headers: the header read at
\* oldp + d lands at newp + d
Memmove(m, newp, oldp, n) ==
  LET shift == newp - oldp
      dst == { a \in DOMAIN m : a >= newp /\ a < newp + n }
             \cup { a + shift : a \in { x \in DOMAIN m : x >= oldp /\ x < oldp + n } }
  IN [a \in (DOMAIN m) \cup dst |->
        IF a \in dst
        THEN LET k == newp + n - a
                 src == M(m, a - shift)
                 old == M(m, a)
             IN IF k >= SIZEOF_META THEN src
                ELSE [cookie |-> IF k >= 4 THEN src.cookie
                                 ELSE ClearLow(old.cookie, k)
                                      + (src.cookie - ClearLow(src.cookie, k)),
                      size |-> IF k >= 12 THEN src.size
                               ELSE ClearLow(old.size, k - 8)
                                    + (src.size - ClearLow(src.size, k - 8)),
                      is_free |-> IF k > 16 THEN src.is_free ELSE old.is_free,
                      is_mmap |-> IF k > 17 THEN src.is_mmap ELSE old.is_mmap,
                      order |-> IF k >= 24 THEN src.order
                                ELSE ClearLow(old.order, k - 20)
                                     + (src.order - ClearLow(src.order, k - 20)),
                      next |-> IF k >= 28 THEN src.next
                               ELSE ClearLow(old.next, k - 24)
                                    + (src.next - ClearLow(src.next, k - 24)),
                      prev |-> IF k >= 36 THEN src.prev
                               ELSE ClearLow(old.prev, k - 32)
                                    + (src.prev - ClearLow(src.prev, k - 32))]
        ELSE m[a]]

srealloc(s, oldp, newSize, env) ==
  IF newSize = 0 THEN [s |-> sfree(s, oldp), ret |-> NULL]
  ELSE IF oldp = NULL THEN smalloc(s, newSize, env)
  ELSE
    LET oldBlock == oldp - SIZEOF_META IN
    IF ~Mapped(s, oldBlock) THEN [s |-> Stop(s, "fault"), ret |-> NULL]
    ELSE IF M(s.mem, oldBlock).cookie # GlobalCookie THEN [s |-> s, ret |-> NULL]
    ELSE IF M(s.mem, oldBlock).size >= newSize THEN [s |-> s, ret |-> oldp]
    ELSE
      Let(IF M(s.mem, oldBlock).is_mmap THEN -1
          ELSE CheckIfMergePossible(s, oldBlock, newSize + SIZEOF_META),
          LAMBDA mergeOrder :
      IF mergeOrder = -2 THEN [s |-> Stop(s, "fault"), ret |-> NULL]
      ELSE IF mergeOrder # -1 THEN
        Let(MergeBuddies(s, oldBlock, mergeOrder), LAMBDA s1 :
          LET osize == M(s1.mem, oldBlock).size IN
          Let(Adjust(s1, mergeOrder, 0, (osize \div 2) - osize, 0, 0, 0),
              LAMBDA s2 :
                [s |-> s2, ret |-> IF s2.status = "ok" THEN oldp ELSE NULL]))
      ELSE
        Let(smalloc(s, newSize, env), LAMBDA r :
          IF r.s.status # "ok" \/ r.ret = NULL THEN [s |-> r.s, ret |-> NULL]
          ELSE
            LET osize == M(r.s.mem, oldBlock).size
                bytesToCopy == IF osize < newSize THEN osize ELSE newSize
            IN
            IF bytesToCopy > 0 /\ ~Mapped(r.s, oldp + bytesToCopy - SIZEOF_META)
            THEN [s |-> Stop(r.s, "fault"), ret |-> NULL]
            ELSE [s |-> sfree([r.s EXCEPT !.mem =
                                 Memmove(r.s.mem, r.ret, oldp, bytesToCopy)],
                              oldp),
                  ret |-> r.ret]))

(***************************************************************************)
(* Statistics                                                              *)
(***************************************************************************)
RECURSIVE SumLists(_, _, _)
\* the accessors' loop over buddyArray[0..MAX_ORDER], from index i on
SumLists(ls, f, i) ==
  IF i > MAX_ORDER THEN 0 ELSE ls[i][f] + SumLists(ls, f, i + 1)

Total(ls, f) == SumLists(ls, f, 0) + ls[MMAP_LIST][f]

num_free_blocks(ls) == Total(ls, "num_free_blocks")
num_free_bytes(ls) == Total(ls, "num_free_bytes")
num_allocated_blocks(ls) == Total(ls, "num_allocated_blocks")
num_allocated_bytes(ls) == Total(ls, "num_allocated_bytes")
num_meta_data_bytes(ls) == Total(ls, "num_meta_data_bytes")

\* the five counters a caller can observe
Counters(ls) ==
  <<num_free_blocks(ls), num_free_bytes(ls), num_allocated_blocks(ls),
    num_allocated_bytes(ls), num_meta_data_bytes(ls)>>

(***************************************************************************)
(* The program and its caller                                              *)
(***************************************************************************)
VARIABLES
  mem,                   \* address -> header
  lists,                 \* buddyArray[0..MAX_ORDER] and mmapList
  maps,                  \* base address -> length of each live mapping
  status,                \* "ok", or why the process stopped
  is_buddy_initialized,
  BASE,
  brk,                   \* the program break
  live,                  \* caller: pointer -> requested size, for the
                         \* pointers returned and not yet freed or replaced
  stale,                 \* caller: pointers freed and not handed out since
  last,                  \* the last public call, its arguments and result
  rt,                    \* an allocate and the free that directly follows
  steps                  \* number of public calls so far

heap == <<mem, lists, maps, status, is_buddy_initialized, BASE, brk>>
vars == <<mem, lists, maps, status, is_buddy_initialized, BASE, brk,
          live, stale, last, rt, steps>>

S == [mem |-> mem, lists |-> lists, maps |-> maps, status |-> status,
      is_buddy_initialized |-> is_buddy_initialized, BASE |-> BASE,
      brk |-> brk]

SetHeap(s) ==
  /\ mem' = s.mem
  /\ lists' = s.lists
  /\ maps' = s.maps
  /\ status' = s.status
  /\ is_buddy_initialized' = s.is_buddy_initialized
  /\ BASE' = s.BASE
  /\ brk' = s.brk

NoCall == [op |-> "none", p |-> NULL, n |-> 0, num |-> 0, ret |-> NULL]
NoRt == [phase |-> "none", p |-> NULL, pre |-> <<0, 0, 0, 0, 0>>,
         reg |-> EmptyList]

Init ==
  /\ mem = <<>>
  /\ lists = [L \in 0..MMAP_LIST |-> EmptyList]
  /\ maps = <<>>
  /\ status = "ok"
  /\ is_buddy_initialized = FALSE
  /\ BASE = NULL
  /\ brk = InitBrk
  /\ live = <<>>
  /\ stale = {}
  /\ last = NoCall
  /\ rt = NoRt
  /\ steps = 0

\* what the operating system may answer during a call that asks for `size`
Envs(size) ==
  [sbrkFail : IF is_buddy_initialized THEN {0} ELSE {0, 1, 2},
   slot : IF size + SIZEOF_META > BLOCK_SIZE /\ size <= MAX_REQUEST
          THEN (MmapSlots \ DOMAIN maps) \cup {NULL}
          ELSE {NULL}]

Give(lv, p, n) == [q \in (DOMAIN lv) \cup {p} |-> IF q = p THEN n ELSE lv[q]]
Take(lv, p) == [q \in (DOMAIN lv) \ {p} |-> lv[q]]

\* the caller's view after a call that returned ret for a request of n bytes
Returned(r, n) ==
  IF r.s.status = "ok" /\ r.ret # NULL
  THEN /\ live' = Give(live, r.ret, n)
       /\ stale' = stale \ {r.ret}
  ELSE UNCHANGED <<live, stale>>

Smalloc(n, env) ==
  /\ status = "ok" /\ steps < MaxOps
  /\ \E r \in {smalloc(S, n, env)} :
     /\ SetHeap(r.s)
     /\ Returned(r, n)
     /\ last' = [op |-> "smalloc", p |-> NULL, n |-> n, num |-> 0, ret |-> r.ret]
     /\ rt' = IF r.s.status = "ok" /\ r.ret # NULL /\ is_buddy_initialized
              THEN [phase |-> "alloc", p |-> r.ret, pre |-> Counters(lists),
                    reg |-> lists[MMAP_LIST]]
              ELSE NoRt
  /\ steps' = steps + 1

Scalloc(num, size, env) ==
  /\ status = "ok" /\ steps < MaxOps
  /\ \E r \in {scalloc(S, num, size, env)} :
     /\ SetHeap(r.s)
     /\ Returned(r, num * size)
     /\ last' = [op |-> "scalloc", p |-> NULL, n |-> size, num |-> num,
                 ret |-> r.ret]
  /\ rt' = NoRt
  /\ steps' = steps + 1

Sfree(p) ==
  /\ status = "ok" /\ steps < MaxOps
  /\ \E s1 \in {sfree(S, p)} : SetHeap(s1)
  /\ live' = Take(live, p)
  /\ stale' = IF p = NULL THEN stale ELSE stale \cup {p}
  /\ last' = [op |-> "sfree", p |-> p, n |-> 0, num |-> 0, ret |-> NULL]
  /\ rt' = IF rt.phase = "alloc" /\ rt.p = p /\ status' = "ok"
           THEN [rt EXCEPT !.phase = "freed"]
           ELSE NoRt
  /\ steps' = steps + 1

Srealloc(p, n, env) ==
  /\ status = "ok" /\ steps < MaxOps
  /\ \E r \in {srealloc(S, p, n, env)} :
     /\ SetHeap(r.s)
     /\ IF r.s.status # "ok" THEN UNCHANGED <<live, stale>>
        ELSE IF n = 0
        THEN /\ live' = Take(live, p)
             /\ stale' = IF p = NULL THEN stale ELSE stale \cup {p}
        ELSE IF r.ret = NULL THEN UNCHANGED <<live, stale>>
        ELSE /\ live' = Give(Take(live, p), r.ret, n)
             /\ stale' = (IF p = NULL \/ p = r.ret THEN stale
                          ELSE stale \cup {p}) \ {r.ret}
     /\ last' = [op |-> "srealloc", p |-> p, n |-> n, num |-> 0, ret |-> r.ret]
  /\ rt' = NoRt
  /\ steps' = steps + 1

\* the requests of the caller
SmallocSizes == {0, 10, 100, BLOCK_SIZE, MAX_REQUEST + 1}
ScallocArgs == {<<0, 8>>, <<2, 100>>}
SreallocSizes == {0, 100, 200, BLOCK_SIZE}

Next ==
  \/ \E n \in SmallocSizes : \E env \in Envs(n) : Smalloc(n, env)
  \/ \E a \in ScallocArgs : \E env \in Envs(a[1] * a[2]) : Scalloc(a[1], a[2], env)
  \/ \E p \in (DOMAIN live) \cup stale \cup {NULL} : Sfree(p)
  \/ \E p \in (DOMAIN live) \cup {NULL} : \E n \in SreallocSizes :
       \E env \in Envs(n) : Srealloc(p, n, env)

Spec == Init /\ [][Next]_vars

\* what a caller that writes below its payload may leave in the canary
CorruptCookies == {0, GlobalCookie + 1}

\* the caller overwrites the canary of a block it holds (a write below the
\* payload it was given); the allocator runs no code
Corrupt(p, c) ==
  /\ status = "ok" /\ steps < MaxOps
  /\ Mapped(S, p - SIZEOF_META)
  /\ M(mem, p - SIZEOF_META).cookie = GlobalCookie
  /\ mem' = W(mem, p - SIZEOF_META, "cookie", c)
  /\ last' = [op |-> "corrupt", p |-> p, n |-> 0, num |-> 0, ret |-> NULL]
  /\ rt' = NoRt
  /\ steps' = steps + 1
  /\ UNCHANGED <<lists, maps, status, is_buddy_initialized, BASE, brk,
                 live, stale>>

NextCorrupt ==
  \/ Next
  \/ \E p \in DOMAIN live : \E c \in CorruptCookies : Corrupt(p, c)

\* the program with a caller that may also damage canaries
SpecCorrupt == Init /\ [][NextCorrupt]_vars

(***************************************************************************)
(* What a state holds, for the properties below                            *)
(***************************************************************************)
\* the arena exists: the initializer ran and both extensions succeeded
ArenaReady == is_buddy_initialized /\ BASE # NULL /\ BASE # SBRK_FAILED

InArena(a) == ArenaReady /\ a >= BASE /\ a < BASE + ARENA_SIZE

RECURSIVE Reach(_, _, _)
\* the nodes met by following next from curr
Reach(m, curr, seen) ==
  IF curr = NULL \/ curr \in seen THEN seen
  ELSE Reach(m, M(m, curr).next, seen \cup {curr})

ListNodes(L) == Reach(mem, lists[L].head, {})

\* the nodes of list L that are marked free
FreeNodes(L) == { b \in ListNodes(L) : M(mem, b).is_free }

RECURSIVE ArenaWalk(_, _)
\* the blocks of the arena as their headers lay them out: the block at a,
\* then the block that starts where it ends
ArenaWalk(a, seen) ==
  IF ~InArena(a) \/ M(mem, a).size <= 0 THEN seen
  ELSE ArenaWalk(a + M(mem, a).size, seen \cup {a})

ArenaBlocks == IF ArenaReady THEN ArenaWalk(BASE, {}) ELSE {}

\* the blocks of the large registry
LargeBlocks == ListNodes(MMAP_LIST)

\* the bytes a block offers its user: its footprint less the header (the
\* size field of a large block does not count the header)
Payload(b) == IF M(mem, b).is_mmap THEN M(mem, b).size
              ELSE M(mem, b).size - SIZEOF_META

RECURSIVE SumPayload(_)
SumPayload(set) ==
  IF set = {} THEN 0
  ELSE LET x == CHOOSE y \in set : TRUE IN Payload(x) + SumPayload(set \ {x})

S_(k) == MIN_BLOCK * (2 ^ k)

\* [a, a + n) and [b, b + k) share a byte
Overlap(a, n, b, k) == a < b + k /\ b < a + n

\* the bytes of a live allocation that are the caller's: those it asked for,
\* as far as its block holds them
Owned(p) ==
  IF live[p] < Payload(p - SIZEOF_META) THEN live[p]
  ELSE Payload(p - SIZEOF_META)

\* two blocks of the arena that are each other's buddy, both free and both of
\* order k
FreeBuddyPair(b1, b2, k) ==
  /\ b1 # b2
  /\ M(mem, b1).is_free /\ M(mem, b2).is_free
  /\ M(mem, b1).size = S_(k) /\ M(mem, b2).size = S_(k)
  /\ FindBuddy(S, b1, S_(k)) = b2
  /\ FindBuddy(S, b2, S_(k)) = b1

LiveBuddy == { p \in DOMAIN live : InArena(p) }

(***************************************************************************)
(* Properties                                                              *)
(***************************************************************************)

\* C1: the payloads of the live allocations are pairwise disjoint, and no
\* live payload lies inside a block that is marked free or that a free list
\* holds as free.
C1_LivePayloadsExclusive ==
  status = "ok" =>
    /\ \A p, q \in DOMAIN live :
         p # q => ~Overlap(p, Owned(p), q, Owned(q))
    /\ \A p \in DOMAIN live :
         /\ ~M(mem, p - SIZEOF_META).is_free
         /\ \A k \in 0..MAX_ORDER : \A b \in FreeNodes(k) :
              ~Overlap(p, Owned(p), b, M(mem, b).size)

\* C2: at every public return the free-blocks accessor is the number of free
\* blocks the lists hold, and the allocated-blocks accessor is the number of
\* blocks of the arena plus the number of blocks of the large registry.
C2_BlockCountsMatch ==
  status = "ok" =>
    /\ num_free_blocks(lists) =
         Cardinality(UNION { FreeNodes(k) : k \in 0..MAX_ORDER })
         + Cardinality(FreeNodes(MMAP_LIST))
    /\ num_allocated_blocks(lists) =
         Cardinality(ArenaBlocks) + Cardinality(LargeBlocks)

\* C3: at every public return the allocated-bytes accessor is the sum of
\* (size - header size) over the blocks of the arena and of the large
\* registry, and the free-bytes accessor the same sum over the free ones.
C3_ByteCountsMatch ==
  status = "ok" =>
    /\ num_allocated_bytes(lists) = SumPayload(ArenaBlocks \cup LargeBlocks)
    /\ num_free_bytes(lists) =
         SumPayload({ b \in ArenaBlocks \cup LargeBlocks : M(mem, b).is_free })

\* C4: every public call terminates: no list traversal loops forever.
C4_EveryCallTerminates == status # "hang"

\* C5: with the arena initialized, a successful allocate directly followed
\* by the free of the pointer it returned leaves the five counters as they
\* were before the allocate.
C5_AllocFreeRestoresCounters ==
  rt.phase = "freed" => Counters(lists) = rt.pre

\* C6: whenever no allocation of the buddy path is live, the list of order
\* MAX_ORDER holds exactly the NUM_INIT_BLOCKS initial blocks, each free and
\* of size BLOCK_SIZE, and every list of a lower order is empty.
C6_FullCoalesce ==
  (status = "ok" /\ ArenaReady /\ LiveBuddy = {}) =>
    /\ ListNodes(MAX_ORDER) =
         { BASE + i * BLOCK_SIZE : i \in 0..(NUM_INIT_BLOCKS - 1) }
    /\ \A b \in ListNodes(MAX_ORDER) :
         M(mem, b).is_free /\ M(mem, b).size = BLOCK_SIZE
    /\ \A k \in 0..(MAX_ORDER - 1) : lists[k].head = NULL

\* C8: when reallocate(P, n) with P not null and n > 0 returns a pointer,
\* the block of that pointer offers at least n bytes of payload.
C8_ReallocCapacity ==
  (status = "ok" /\ last.op = "srealloc" /\ last.p # NULL /\ last.n > 0
     /\ last.ret # NULL)
    => Payload(last.ret - SIZEOF_META) >= last.n

\* C9: free of a pointer that was freed and not handed out since changes
\* nothing and reads no memory that was released.
C9_DoubleFreeNoOp ==
  [][(last'.op = "sfree" /\ steps' = steps + 1 /\ last'.p \in stale)
       => (heap' = heap)]_vars

\* C10: allocate of size 0 or of a size above the ceiling returns null and
\* changes nothing of the allocator, the first call included.
C10_BadSizeNoOp ==
  [][(last'.op = "smalloc" /\ steps' = steps + 1
        /\ (last'.n = 0 \/ last'.n > MAX_REQUEST))
       => (last'.ret = NULL /\ heap' = heap)]_vars

\* C7: right after a free returns, no two blocks of the arena are each
\* other's buddy, both free and both of one order below MAX_ORDER.
C7_MaximalCoalesce ==
  (status = "ok" /\ last.op = "sfree") =>
    \A k \in 0..(MAX_ORDER - 1) : \A b1, b2 \in ArenaBlocks :
      ~FreeBuddyPair(b1, b2, k)

\* an attempt to initialize the arena was made and did not produce it
InitFailed == is_buddy_initialized /\ ~ArenaReady

\* C11: after a program-break extension failed during initialization, every
\* allocate, zero_allocate and reallocate request returns null, requests of
\* the large path included, for as long as no initialization has succeeded.
C11_FailsUntilInitialized ==
  (InitFailed /\ last.op \in {"smalloc", "scalloc", "srealloc"})
    => last.ret = NULL

\* C12: when reallocate(P, n) with P not null and n > 0 returns null, the
\* old block is unchanged and still live, and the lists, the large registry
\* and the counters are what they were before the call.
C12_FailedReallocKeepsState ==
  [][(last'.op = "srealloc" /\ steps' = steps + 1 /\ status' = "ok"
        /\ last'.p # NULL /\ last'.n > 0 /\ last'.ret = NULL)
       => (heap' = heap /\ live' = live)]_vars

\* a reallocate of a live pointer to a positive size has just returned null
C12_Witness ==
  /\ status = "ok" /\ last.op = "srealloc" /\ last.ret = NULL
  /\ last.p \in DOMAIN live /\ last.n > 0

\* C13: with the arena initialized, a successful allocate of size + H > L
\* adds exactly one block, large and not free, to the large registry and
\* leaves every order list and its counters alone; an allocate of
\* size + H <= L leaves the large registry alone; the free of the large block
\* directly after its allocate puts the registry and the five counters back
\* to what they were before the allocate.
C13_LargePathFrame ==
  [][/\ (last'.op = "smalloc" /\ steps' = steps + 1 /\ status' = "ok"
           /\ is_buddy_initialized /\ last'.ret # NULL
           /\ last'.n + SIZEOF_META > BLOCK_SIZE)
        => /\ \A k \in 0..MAX_ORDER : lists'[k] = lists[k]
           /\ (last'.ret - SIZEOF_META) \notin ListNodes(MMAP_LIST)
           /\ Reach(mem', lists'[MMAP_LIST].head, {})
                = ListNodes(MMAP_LIST) \cup {last'.ret - SIZEOF_META}
           /\ M(mem', last'.ret - SIZEOF_META).is_mmap
           /\ ~M(mem', last'.ret - SIZEOF_META).is_free
     /\ (last'.op = "smalloc" /\ steps' = steps + 1 /\ status' = "ok"
           /\ last'.n + SIZEOF_META <= BLOCK_SIZE)
        => /\ lists'[MMAP_LIST] = lists[MMAP_LIST]
           /\ Reach(mem', lists'[MMAP_LIST].head, {}) = ListNodes(MMAP_LIST)
     /\ (last'.op = "sfree" /\ steps' = steps + 1 /\ rt'.phase = "freed"
           /\ M(mem, rt.p - SIZEOF_META).is_mmap)
        => /\ lists'[MMAP_LIST] = rt.reg
           /\ Counters(lists') = rt.pre]_vars

RECURSIVE Ascending(_, _)
\* from curr on, next leads to strictly higher addresses until null, and the
\* prev of every node reached is the node it was reached from
Ascending(m, curr) ==
  IF curr = NULL THEN TRUE
  ELSE LET nx == M(m, curr).next IN
       \/ nx = NULL
       \/ /\ nx > curr
          /\ M(m, nx).prev = curr
          /\ Ascending(m, nx)

WellFormedList(L) ==
  /\ lists[L].head # NULL => M(mem, lists[L].head).prev = NULL
  /\ Ascending(mem, lists[L].head)

\* C14: at every public return each order list and the large registry is a
\* doubly linked list in strictly ascending address order that ends at null,
\* with prev the inverse of next.
C14_ListsWellFormed ==
  status = "ok" => \A L \in 0..MMAP_LIST : WellFormedList(L)

\* C15: at every public return a buddy block is in at most one order list,
\* that list is the one of the order of its size, and only free blocks are
\* in a list: a block handed out is in none, a free block of the arena is in
\* one.
C15_ListMembership ==
  (status = "ok" /\ ArenaReady) =>
    /\ \A k \in 0..MAX_ORDER : \A b \in ListNodes(k) :
         /\ M(mem, b).is_free
         /\ GetBlockOrder(M(mem, b).size) = k
         /\ \A j \in 0..MAX_ORDER : j # k => b \notin ListNodes(j)
    /\ \A p \in LiveBuddy :
         \A k \in 0..MAX_ORDER : (p - SIZEOF_META) \notin ListNodes(k)
    /\ \A b \in ArenaBlocks :
         M(mem, b).is_free => \E k \in 0..MAX_ORDER : b \in ListNodes(k)

\* C16: at every public return every block of the order-k list has size
\* S(k) = 128 * 2^k and order field k, for each k in 0..MAX_ORDER.
C16_SizeAndOrderFields ==
  status = "ok" =>
    \A k \in 0..MAX_ORDER : \A b \in ListNodes(k) :
      M(mem, b).size = S_(k) /\ M(mem, b).order = k

\* C17: free(P) on a live block whose canary is not the fixed tag changes
\* nothing: the block stays not free, no list, registry entry or counter
\* moves; reallocate(P, n) with n > 0 on such a block returns null and
\* changes nothing.
C17_BadCanaryNoOp ==
  [][(/\ steps' = steps + 1 /\ status' = "ok"
      /\ last'.p \in DOMAIN live
      /\ M(mem, last'.p - SIZEOF_META).cookie # GlobalCookie
      /\ \/ last'.op = "sfree"
         \/ last'.op = "srealloc" /\ last'.n > 0)
       => /\ heap' = heap
          /\ last'.op = "srealloc" => last'.ret = NULL]_vars

\* a free has just returned for a block whose canary is damaged and whose
\* header still says it is in use
C17_Witness ==
  /\ status = "ok" /\ last.op = "sfree" /\ last.p # NULL
  /\ Mapped(S, last.p - SIZEOF_META)
  /\ M(mem, last.p - SIZEOF_META).cookie # GlobalCookie
  /\ ~M(mem, last.p - SIZEOF_META).is_free

\* the lower of a block and its buddy: where their merge is kept
Lower(a, b) == IF a < b THEN a ELSE b

\* C18: when free(P) merges P's block, of order k, with the header at its
\* buddy address (the lower of the two grows), that header described a free
\* block, not large, of the same size S(k), enrolled in the order-k list, and
\* the block the free leaves there covers no block that is still in use.
C18_MergeOnlyWholeFreeBuddy ==
  [][(/\ last'.op = "sfree" /\ steps' = steps + 1 /\ status' = "ok"
      /\ last'.p \in DOMAIN live /\ InArena(last'.p)
      /\ M(mem, last'.p - SIZEOF_META).size > 0
      /\ LET X == last'.p - SIZEOF_META
             bud == FindBuddy(S, X, M(mem, X).size)
         IN M(mem', Lower(X, bud)).size > M(mem, Lower(X, bud)).size)
       => LET X == last'.p - SIZEOF_META
              bs == M(mem, X).size
              bud == FindBuddy(S, X, bs)
              low == Lower(X, bud)
          IN /\ M(mem, bud).is_free
             /\ ~M(mem, bud).is_mmap
             /\ M(mem, bud).size = bs
             /\ bud \in ListNodes(GetBlockOrder(bs))
             /\ \A q \in DOMAIN live' :
                  ~Overlap(q - SIZEOF_META, SIZEOF_META,
                           low, M(mem', low).size)]_vars

\* C19: when reallocate(P, n) finds P's buddy block too small and returns P
\* itself, the block that starts at P's header is not free and holds
\* n + H bytes, and no header below it has grown: what was absorbed lay to
\* the right.
C19_GrowInPlaceRightwardOnly ==
  [][(/\ last'.op = "srealloc" /\ steps' = steps + 1 /\ status' = "ok"
      /\ last'.p \in DOMAIN live /\ InArena(last'.p) /\ last'.n > 0
      /\ last'.ret = last'.p
      /\ M(mem, last'.p - SIZEOF_META).size < last'.n)
       => LET X == last'.p - SIZEOF_META IN
          /\ M(mem', X).size >= last'.n + SIZEOF_META
          /\ ~M(mem', X).is_free
          /\ \A a \in DOMAIN mem :
               a < X => M(mem', a).size = M(mem, a).size]_vars

\* the lowest address of a non-empty set of blocks
Lowest(set) == CHOOSE b \in set : \A c \in set : b <= c

\* the orders from k up whose list holds a free block
OrdersWithFree(k) == { i \in k..MAX_ORDER : FreeNodes(i) # {} }

\* C20: with the arena in place, allocate(size) with size + H <= L returns
\* null only if no list of order k..MAX_ORDER holds a free block, k being the
\* least order with S(k) >= size + H; otherwise it returns the lowest free
\* block of the lowest such order that holds one, cut down to size S(k).
C20_BestFitLowestAddress ==
  [][(/\ last'.op = "smalloc" /\ steps' = steps + 1 /\ status' = "ok"
      /\ ArenaReady
      /\ last'.n > 0 /\ last'.n + SIZEOF_META <= BLOCK_SIZE)
       => LET k == GetBlockOrder(last'.n + SIZEOF_META)
              from == OrdersWithFree(k)
          IN IF last'.ret = NULL THEN from = {}
             ELSE /\ from # {}
                  /\ last'.ret - SIZEOF_META
                       = Lowest(FreeNodes(Lowest(from)))
                  /\ M(mem', last'.ret - SIZEOF_META).size = S_(k)]_vars

\* the buddy blocks that exist: those the order lists hold and those of the
\* live allocations of the buddy path
BuddyBlocks ==
  UNION { ListNodes(k) : k \in 0..MAX_ORDER }
    \cup { p - SIZEOF_META : p \in LiveBuddy }

RECURSIVE SumSize(_)
SumSize(set) ==
  IF set = {} THEN 0
  ELSE LET x == CHOOSE y \in set : TRUE
       IN M(mem, x).size + SumSize(set \ {x})

\* C21: at every public return with the arena in place the buddy blocks tile
\* the arena: their ranges [addr, addr + size) are pairwise disjoint, each
\* starts at a multiple of its size from the arena base, and their sizes sum
\* to NUM_INIT_BLOCKS * BLOCK_SIZE.
C21_BlocksTileArena ==
  (status = "ok" /\ ArenaReady) =>
    /\ \A a, b \in BuddyBlocks :
         a # b => ~Overlap(a, M(mem, a).size, b, M(mem, b).size)
    /\ \A a \in BuddyBlocks :
         /\ InArena(a)
         /\ M(mem, a).size > 0
         /\ (a - BASE) % M(mem, a).size = 0
    /\ SumSize(BuddyBlocks) = ARENA_SIZE

====
